---- MODULE Spec2Model ----
(***************************************************************************)
(* Model of scripts/jsonl_distill.py: the byte-offset cursor store, the    *)
(* newline-aligned tail reader, and the two-phase extract / commit handoff *)
(* of session JSONL files to the distiller.                                *)
(*                                                                         *)
(* A session file is a sequence of bytes over {"u", "z", NL}:              *)
(*   "u"  a byte of a line that decodes to a user/assistant message,       *)
(*   "z"  a byte that makes its line fail the decoder (unparseable JSON,   *)
(*        wrong type or role, noise text),                                 *)
(*   NL   the newline byte.                                                *)
(* Where only the tail reader is exercised the files also hold " ", a      *)
(* whitespace byte that line.strip() removes.                              *)
(* A line decodes to a message iff it is non-blank and holds no "z".       *)
(* The "ts" of a message is modelled by the position <<path, offset>> of   *)
(* its log line, which is what identifies the log line in the file.        *)
(***************************************************************************)
EXTENDS Integers, Sequences, FiniteSets, TLC

\* longest session file, in bytes, when one session file is written
MaxLen == 3
\* most bytes in all session files together, when two session files are written
MaxTotal == 4
\* most bytes in all session files together, when session files are also deleted
MaxDirTotal == 2
\* last reading of the wall clock, in seconds (readings are 0..MaxClock)
MaxClock == 1
\* inode numbers a path's file can get (1..MaxIno)
MaxIno == 2
\* longest file content given to the tail reader alone
MaxTailLen == 4

NL == "\n"
Bytes == {"u", "z", NL}
SP == " "
TailBytes == Bytes \cup {SP}
None == -1

\* what _list_session_files can return, in its sorted order
PathSeq == <<"main/sessions/s1.jsonl", "main/sessions/s2.jsonl">>
Paths == {PathSeq[i] : i \in 1..Len(PathSeq)}
AgentOf(key) == "main"

\* values of --max-bytes-per-file and --max-messages-per-agent
MaxBytesArgs == {1, 2, MaxTotal}
MaxMessagesArgs == 0..1
\* the batch ids that the readings of the clock give
BatchIds == 0..MaxClock

VARIABLES
  fs,       \* the agents directory: path -> [ino, data] for the files that exist
  files,    \* cursor.json "files": path -> cursor entry
  batches,  \* the batches directory: the batch files that exist
  res,      \* the JSON result printed by the last command
  ackHi,    \* history: per path, the end of the last byte range a commit
            \* acknowledged since the file there was last replaced or truncated
  doneIds   \* history: the batch ids for which a commit has advanced a file

vars == <<fs, files, batches, res, ackHi, doneIds>>

Min(a, b) == IF a < b THEN a ELSE b

Put(f, k, v) == (k :> v) @@ f

(***************************************************************************)
(* _read_jsonl_lines                                                       *)
(***************************************************************************)
RECURSIVE splitlines(_, _, _, _)
\* text.splitlines() of a chunk that starts at file offset base; each line
\* keeps the offset at which it starts.
splitlines(text, base, i, cur) ==
  IF i > Len(text)
  THEN IF cur = <<>> THEN <<>>
       ELSE <<[off |-> base + i - 1 - Len(cur), text |-> cur]>>
  ELSE IF text[i] = NL
       THEN <<[off |-> base + i - 1 - Len(cur), text |-> cur]>>
            \o splitlines(text, base, i + 1, <<>>)
       ELSE splitlines(text, base, i + 1, Append(cur, text[i]))

\* data.rfind(b"\n"): 0-based index of the last newline, -1 if there is none
rfind_nl(data) ==
  LET S == {i \in 1..Len(data) : data[i] = NL}
  IN IF S = {} THEN -1 ELSE (CHOOSE i \in S : \A j \in S : j <= i) - 1

RECURSIVE lstrip(_)
lstrip(t) == IF t # <<>> /\ Head(t) = SP THEN lstrip(Tail(t)) ELSE t

RECURSIVE rstrip(_)
rstrip(t) ==
  IF t # <<>> /\ t[Len(t)] = SP THEN rstrip(SubSeq(t, 1, Len(t) - 1)) ELSE t

\* line.strip() of each line
RECURSIVE strip_each(_)
strip_each(ls) ==
  IF ls = <<>> THEN <<>>
  ELSE <<[off |-> Head(ls).off, text |-> rstrip(lstrip(Head(ls).text))]>>
       \o strip_each(Tail(ls))

nonblank(l) == l.text # <<>>

\* faulty variant: the chunk is not cut back to its last newline
read_jsonl_lines_unaligned(content, start_offset, max_bytes) ==
  LET data == SubSeq(content, start_offset + 1,
                     Min(Len(content), start_offset + max_bytes))
  IN [lines |-> SelectSeq(strip_each(splitlines(data, start_offset, 1, <<>>)),
                          nonblank),
      end_offset |-> start_offset + Len(data),
      nread |-> Len(data)]

read_jsonl_lines(content, start_offset, max_bytes) ==
  LET data == SubSeq(content, start_offset + 1,
                     Min(Len(content), start_offset + max_bytes))
      told == start_offset + Len(data)
      last_nl == rfind_nl(data)
  IN IF data = <<>>
     THEN [lines |-> <<>>, end_offset |-> told, nread |-> 0]
     ELSE IF data[Len(data)] # NL
     THEN IF last_nl = -1
          THEN [lines |-> <<>>, end_offset |-> start_offset, nread |-> Len(data)]
          ELSE [lines |-> SelectSeq(strip_each(splitlines(
                                      SubSeq(data, 1, last_nl + 1),
                                      start_offset, 1, <<>>)), nonblank),
                end_offset |-> start_offset + last_nl + 1,
                nread |-> Len(data)]
     ELSE [lines |-> SelectSeq(strip_each(splitlines(data, start_offset, 1, <<>>)),
                               nonblank),
           end_offset |-> told,
           nread |-> Len(data)]

(***************************************************************************)
(* The record decoder of run_extract (json.loads, type/role checks,        *)
(* _extract_text_blocks, _clean_text, _is_noise)                           *)
(***************************************************************************)
is_message(line) == \A i \in 1..Len(line.text) : line.text[i] = "u"

decode(key, line) == [ts |-> <<key, line.off>>, role |-> "user", text |-> line.text]

RECURSIVE decode_lines(_, _)
decode_lines(key, lines) ==
  IF lines = <<>> THEN <<>>
  ELSE IF is_message(Head(lines))
       THEN <<decode(key, Head(lines))>> \o decode_lines(key, Tail(lines))
       ELSE decode_lines(key, Tail(lines))

(***************************************************************************)
(* _list_session_files, cursor entries                                     *)
(***************************************************************************)
list_session_files(dir) == SelectSeq(PathSeq, LAMBDA key : key \in DOMAIN dir)

CursorEntry(agent_id, inode, committed, pending, pending_batch, last_size) ==
  [agentId |-> agent_id, inode |-> inode, committed |-> committed,
   pending |-> pending, pendingBatch |-> pending_batch, lastSize |-> last_size]

(***************************************************************************)
(* run_extract                                                             *)
(***************************************************************************)
\* faulty variant: the initial committed = 0 is never replaced for a tracked file
start_offset_zero(store, key, inode, size) ==
  IF key \in DOMAIN store /\ store[key].inode = inode THEN 0 ELSE size

\* faulty variant: a file cut below the committed offset is resumed there
start_offset_no_reset(store, key, inode, size) ==
  IF key \in DOMAIN store /\ store[key].inode = inode
  THEN store[key].committed
  ELSE size

\* faulty variant: a path without a cursor is read from its first byte
start_offset_backlog(store, key, inode, size) ==
  IF key \in DOMAIN store
  THEN IF store[key].inode = inode
       THEN IF size < store[key].committed THEN 0 ELSE store[key].committed
       ELSE size
  ELSE 0

\* the offset the pass resumes from (the local variable committed)
start_offset_of(store, key, inode, size) ==
  IF key \in DOMAIN store /\ store[key].inode = inode
  THEN IF size < store[key].committed THEN 0 ELSE store[key].committed
  ELSE size

\* one iteration of the loop over the session files; f is the file as
\* f.stat() finds it (lines 233-235), data the content _read_jsonl_lines
\* finds when it opens the file (line 261)
scan_file_at(st, key, f, data, max_bytes) ==
  LET agent_id == AgentOf(key)
      inode == f.ino
      size == Len(f.data)
      committed == start_offset_of(st.files, key, inode, size)
      rd == read_jsonl_lines(data, committed, max_bytes)
      extracted == decode_lines(key, rd.lines)
      msgs == IF agent_id \in DOMAIN st.per_agent_msgs
              THEN st.per_agent_msgs[agent_id] ELSE <<>>
  IN IF size <= committed
     THEN [st EXCEPT !.files = Put(st.files, key,
             CursorEntry(agent_id, inode, committed, None, None, size))]
     ELSE IF rd.lines = <<>>
     THEN [st EXCEPT !.nread = @ + rd.nread]
     ELSE IF extracted = <<>>
     THEN [st EXCEPT !.files = Put(st.files, key,
             CursorEntry(agent_id, inode, rd.end_offset, None, None, size)),
                     !.nread = @ + rd.nread]
     ELSE [st EXCEPT !.per_agent_msgs = Put(st.per_agent_msgs, agent_id,
                                            msgs \o extracted),
                     !.touched_files = Append(@,
                        [path |-> key, agentId |-> agent_id, inode |-> inode,
                         committed |-> committed, pending |-> rd.end_offset,
                         size |-> size]),
                     !.nread = @ + rd.nread]

\* the iteration when no writer acts between the stat and the read
scan_file(st, key, f, max_bytes) == scan_file_at(st, key, f, f.data, max_bytes)

\* the loop when the writers act between the stat and the read of a file:
\* later holds the files as the reads find them
RECURSIVE scan_racing(_, _, _, _, _)
scan_racing(st, listing, dir, later, max_bytes) ==
  IF listing = <<>> THEN st
  ELSE scan_racing(scan_file_at(st, Head(listing), dir[Head(listing)],
                                later[Head(listing)].data, max_bytes),
                   Tail(listing), dir, later, max_bytes)

RECURSIVE scan(_, _, _, _)
scan(st, listing, dir, max_bytes) ==
  IF listing = <<>> THEN st
  ELSE scan(scan_file(st, Head(listing), dir[Head(listing)], max_bytes),
            Tail(listing), dir, max_bytes)

\* msgs[-n:]
tail_slice(msgs, n) ==
  IF n = 0 THEN msgs ELSE SubSeq(msgs, Len(msgs) - n + 1, Len(msgs))

cap_messages(per_agent_msgs, max_messages_per_agent) ==
  [a \in DOMAIN per_agent_msgs |->
     IF Len(per_agent_msgs[a]) > max_messages_per_agent
     THEN tail_slice(per_agent_msgs[a], max_messages_per_agent)
     ELSE per_agent_msgs[a]]

\* time.strftime("%Y%m%d-%H%M%S"): the wall clock to the second
batch_id_at(now) == now

RECURSIVE write_pending_advancing(_, _, _)
\* faulty variant: the pass stores the end offset as committed too
write_pending_advancing(store, touched_files, batch_path) ==
  IF touched_files = <<>> THEN store
  ELSE LET tf == Head(touched_files)
       IN write_pending_advancing(
            Put(store, tf.path,
                CursorEntry(tf.agentId, tf.inode, tf.pending, tf.pending,
                            batch_path, tf.size)),
            Tail(touched_files), batch_path)

RECURSIVE write_pending(_, _, _)
write_pending(store, touched_files, batch_path) ==
  IF touched_files = <<>> THEN store
  ELSE LET tf == Head(touched_files)
       IN write_pending(
            Put(store, tf.path,
                CursorEntry(tf.agentId, tf.inode, tf.committed, tf.pending,
                            batch_path, tf.size)),
            Tail(touched_files), batch_path)

\* The loop when f.stat() (line 233) or path.open (line 57) raises for the
\* file bad: kind "stat" raises at the stat, kind "read" at the open, which
\* the pass reaches only for a file that has bytes past its start offset.
\* Nothing in run_extract or main catches the exception.
RECURSIVE scan_failing(_, _, _, _, _, _)
scan_failing(st, listing, dir, bad, kind, max_bytes) ==
  IF listing = <<>> THEN [st |-> st, raised |-> FALSE]
  ELSE LET key == Head(listing)
           size == Len(dir[key].data)
           opens == size > start_offset_of(st.files, key, dir[key].ino, size)
       IN IF key = bad /\ (kind = "stat" \/ opens)
          THEN [st |-> st, raised |-> TRUE]
          ELSE scan_failing(scan_file(st, key, dir[key], max_bytes),
                            Tail(listing), dir, bad, kind, max_bytes)

\* faulty variant: the pending check finds nothing
pending_batches_none(store) == {}

pending_batches_of(store) ==
  {store[k].pendingBatch : k \in DOMAIN store} \ {None}

\* The loop over the session files (lines 227-313): the cursor entries it
\* rewrites, the messages and touched files it stages, the bytes it reads.
collect(store, dir, max_bytes_per_file) ==
  scan([files |-> store, per_agent_msgs |-> <<>>, touched_files |-> <<>>,
        nread |-> 0],
       list_session_files(dir), dir, max_bytes_per_file)

\* faulty variant: a pass that staged nothing returns without saving the cursor
materialize_unsaved(store, st, now, max_messages_per_agent) ==
  IF pending_batches_of(store) # {}
  THEN [action |-> "pending", files |-> store,
        batchFiles |-> pending_batches_of(store),
        written |-> <<>>, agents |-> 0, nread |-> 0,
        staged |-> <<>>, touched |-> <<>>]
  ELSE IF DOMAIN st.per_agent_msgs = {}
  THEN [action |-> "noop", files |-> store, batchFiles |-> {},
        written |-> <<>>, agents |-> 0, nread |-> st.nread,
        staged |-> <<>>, touched |-> <<>>]
  ELSE [action |-> "created",
        files |-> write_pending(st.files, st.touched_files, batch_id_at(now)),
        batchFiles |-> {batch_id_at(now)},
        written |-> (batch_id_at(now) :>
                       [agents |-> cap_messages(st.per_agent_msgs,
                                                max_messages_per_agent),
                        touchedFiles |-> st.touched_files]),
        agents |-> Cardinality(DOMAIN st.per_agent_msgs), nread |-> st.nread,
        staged |-> st.per_agent_msgs, touched |-> st.touched_files]

\* The pending check before the loop and the steps after it: the store the
\* pass leaves, the batch file it writes (if any) and its result, with what
\* it read and staged on the way.
materialize(store, st, now, max_messages_per_agent) ==
  LET pending_batches == pending_batches_of(store)
      capped == cap_messages(st.per_agent_msgs, max_messages_per_agent)
      batch_id == batch_id_at(now)
      batch_obj == [agents |-> capped, touchedFiles |-> st.touched_files]
  IN IF pending_batches # {}
     THEN [action |-> "pending", files |-> store, batchFiles |-> pending_batches,
           written |-> <<>>, agents |-> 0, nread |-> 0,
           staged |-> <<>>, touched |-> <<>>]
     ELSE IF DOMAIN st.per_agent_msgs = {}
     THEN [action |-> "noop", files |-> st.files, batchFiles |-> {},
           written |-> <<>>, agents |-> 0, nread |-> st.nread,
           staged |-> <<>>, touched |-> <<>>]
     ELSE [action |-> "created",
           files |-> write_pending(st.files, st.touched_files, batch_id),
           batchFiles |-> {batch_id},
           written |-> (batch_id :> batch_obj),
           agents |-> Cardinality(DOMAIN capped), nread |-> st.nread,
           staged |-> st.per_agent_msgs, touched |-> st.touched_files]

run_extract(store, dir, now, max_bytes_per_file, max_messages_per_agent) ==
  materialize(store, collect(store, dir, max_bytes_per_file), now,
              max_messages_per_agent)

(***************************************************************************)
(* commit_batch                                                            *)
(***************************************************************************)
commits(v, batch_file) == v.pendingBatch = batch_file /\ v.pending # None

\* faulty variant: the commit leaves pendingBatch set
commit_entry_keeping_batch(v, batch_file) ==
  IF commits(v, batch_file)
  THEN [v EXCEPT !.committed = v.pending]
  ELSE v

commit_entry(v, batch_file) ==
  IF commits(v, batch_file)
  THEN [v EXCEPT !.committed = v.pending, !.pending = None, !.pendingBatch = None]
  ELSE v

commit_batch(store, batch_file) ==
  [files |-> [k \in DOMAIN store |-> commit_entry(store[k], batch_file)],
   committedFiles |-> Cardinality({k \in DOMAIN store : commits(store[k], batch_file)})]

(***************************************************************************)
(* init_from_now                                                           *)
(***************************************************************************)
\* faulty variant: init seeds the cursor at the start of the file
init_entry_zero(key, f) ==
  CursorEntry(AgentOf(key), f.ino, 0, None, None, Len(f.data))

init_entry(key, f) ==
  CursorEntry(AgentOf(key), f.ino, Len(f.data), None, None, Len(f.data))

init_from_now(store, dir) ==
  LET out == [k \in DOMAIN store \cup DOMAIN dir |->
                IF k \in DOMAIN dir THEN init_entry(k, dir[k]) ELSE store[k]]
  IN [files |-> out, trackedFiles |-> Cardinality(DOMAIN out)]

(***************************************************************************)
(* _save_cursor and the order of the writes to disk                        *)
(***************************************************************************)
\* cursor.json after _save_cursor(new) over old: the new store once
\* tmp.replace has happened, the old one until then (cursor.tmp is a
\* different file, which nothing reads)
save_cursor(old, new, replaced) == IF replaced THEN new ELSE old

\* how many of its writes to disk a command has done when the process dies
CrashPoints == 0..3

\* faulty variant: the pass saves the cursor before it writes the batch file
persist_run_cursor_first(store, bs, out, at) ==
  [files |-> save_cursor(store, out.files, at >= 2),
   batches |-> IF at >= 3 THEN bs \cup DOMAIN out.written ELSE bs]

\* the disk after the first `at` writes of a pass with outcome out:
\* 1 the batch file (line 346), 2 cursor.tmp (line 149), 3 the replace of
\* cursor.json (line 150); a pass that writes no batch file only does 2 and 3
persist_run(store, bs, out, at) ==
  [files |-> save_cursor(store, out.files, at >= 3),
   batches |-> IF at >= 1 THEN bs \cup DOMAIN out.written ELSE bs]

\* the disk after the first `at` writes of commit: 1 cursor.tmp,
\* 2 the replace of cursor.json (line 391), 3 the unlink (line 393)
persist_commit(store, bs, out, batch_file, at) ==
  [files |-> save_cursor(store, out.files, at >= 2),
   batches |-> IF at >= 3 THEN bs \ {batch_file} ELSE bs]

(***************************************************************************)
(* The commands (main) and the writers of the session files                *)
(***************************************************************************)
Result(action, batch_files, committed_files, tracked_files, agents) ==
  [action |-> action, batchFiles |-> batch_files, committedFiles |-> committed_files,
   trackedFiles |-> tracked_files, agents |-> agents]

Init ==
  /\ fs = <<>>
  /\ files = <<>>
  /\ batches = {}
  /\ res = Result("none", {}, 0, 0, 0)
  /\ ackHi = [p \in Paths |-> 0]
  /\ doneIds = {}

CmdInit ==
  \E out \in {init_from_now(files, fs)} :
     /\ files' = out.files
     /\ res' = Result("init", {}, 0, out.trackedFiles, 0)
     /\ UNCHANGED <<fs, batches>>

\* now: the reading of the local wall clock when the batch id is formed
CmdRun(max_bytes, max_messages) ==
  \E st \in {collect(files, fs, max_bytes)} :
  \E now \in BatchIds :
  \E out \in {materialize(files, st, now, max_messages)} :
     /\ files' = out.files
     /\ batches' = batches \cup DOMAIN out.written
     /\ res' = Result(out.action, out.batchFiles, 0, 0, out.agents)
     /\ UNCHANGED fs

\* unlink_ok: whether batch_file.unlink() succeeds
CmdCommit(batch_file, unlink_ok) ==
  \E out \in {commit_batch(files, batch_file)} :
     /\ files' = out.files
     /\ batches' = IF unlink_ok THEN batches \ {batch_file} ELSE batches
     /\ res' = Result("committed", {batch_file}, out.committedFiles, 0, 0)
     /\ UNCHANGED fs

\* run while a writer appends byte b to the session file p after the pass
\* has taken the file's size and before it reads the file
CmdRunRacing(max_bytes, max_messages, p, b, max_len) ==
  /\ p \in DOMAIN fs
  /\ Len(fs[p].data) < max_len
  /\ \E later \in {[fs EXCEPT ![p].data = Append(@, b)]} :
     \E st \in {scan_racing([files |-> files, per_agent_msgs |-> <<>>,
                             touched_files |-> <<>>, nread |-> 0],
                            list_session_files(fs), fs, later, max_bytes)} :
     \E now \in BatchIds :
     \E out \in {materialize(files, st, now, max_messages)} :
        /\ fs' = later
        /\ files' = out.files
        /\ batches' = batches \cup DOMAIN out.written
        /\ res' = Result(out.action, out.batchFiles, 0, 0, out.agents)

\* run while the session file bad cannot be stat-ed or opened; when the
\* exception is raised the process ends with a traceback: no cursor is saved,
\* no batch file written and no result printed
CmdRunFailing(max_bytes, max_messages, bad, kind) ==
  /\ bad \in DOMAIN fs
  /\ \E sc \in {scan_failing([files |-> files, per_agent_msgs |-> <<>>,
                              touched_files |-> <<>>, nread |-> 0],
                             list_session_files(fs), fs, bad, kind, max_bytes)} :
     \E now \in BatchIds :
     \E out \in {materialize(files, sc.st, now, max_messages)} :
        IF out.action # "pending" /\ sc.raised
        THEN /\ res' = Result("error", {}, 0, 0, 0)
             /\ UNCHANGED <<fs, files, batches>>
        ELSE /\ files' = out.files
             /\ batches' = batches \cup DOMAIN out.written
             /\ res' = Result(out.action, out.batchFiles, 0, 0, out.agents)
             /\ UNCHANGED fs

\* run whose process dies after `at` of its writes to disk; nothing is printed
CmdRunCrashing(max_bytes, max_messages, at) ==
  \E st \in {collect(files, fs, max_bytes)} :
  \E now \in BatchIds :
  \E out \in {materialize(files, st, now, max_messages)} :
  \E disk \in {persist_run(files, batches, out, at)} :
     /\ files' = disk.files
     /\ batches' = disk.batches
     /\ res' = Result("crashed", {}, 0, 0, 0)
     /\ UNCHANGED fs

\* commit whose process dies after `at` of its writes to disk
CmdCommitCrashing(batch_file, at) ==
  \E out \in {commit_batch(files, batch_file)} :
  \E disk \in {persist_commit(files, batches, out, batch_file, at)} :
     /\ files' = disk.files
     /\ batches' = disk.batches
     /\ res' = Result("crashed", {}, 0, 0, 0)
     /\ UNCHANGED fs

Without(f, k) == [x \in DOMAIN f \ {k} |-> f[x]]

RECURSIVE Bytes_in(_, _)
Bytes_in(dir, S) ==
  IF S = {} THEN 0
  ELSE LET k == CHOOSE x \in S : TRUE
       IN Len(dir[k].data) + Bytes_in(dir, S \ {k})

AppendByte(p, b, max_len) ==
  /\ p \in DOMAIN fs
  /\ Len(fs[p].data) < max_len
  /\ fs' = [fs EXCEPT ![p].data = Append(@, b)]
  /\ UNCHANGED <<files, batches, res>>

Truncate(p) ==
  /\ p \in DOMAIN fs
  /\ fs[p].data # <<>>
  /\ fs' = [fs EXCEPT ![p].data = <<>>]
  /\ UNCHANGED <<files, batches, res>>

Rotate(p, ino) ==
  /\ p \in DOMAIN fs
  /\ ino # fs[p].ino
  /\ fs' = [fs EXCEPT ![p] = [ino |-> ino, data |-> <<>>]]
  /\ UNCHANGED <<files, batches, res>>

Create(p, ino) ==
  /\ p \notin DOMAIN fs
  /\ fs' = Put(fs, p, [ino |-> ino, data |-> <<>>])
  /\ UNCHANGED <<files, batches, res>>

Delete(p) ==
  /\ p \in DOMAIN fs
  /\ fs' = Without(fs, p)
  /\ UNCHANGED <<files, batches, res>>

\* a step of one of the three commands: the writers always change fs
CommandStep == fs' = fs

\* the file at p is the same file, with at most bytes appended
OnlyAppended(p) ==
  \/ p \notin DOMAIN fs /\ p \notin DOMAIN fs'
  \/ /\ p \in DOMAIN fs /\ p \in DOMAIN fs'
     /\ fs'[p].ino = fs[p].ino
     /\ Len(fs'[p].data) >= Len(fs[p].data)
     /\ SubSeq(fs'[p].data, 1, Len(fs[p].data)) = fs[p].data

\* The history of a step: which batch ids a commit has advanced, and where the
\* last range a commit acknowledged for a file ends.
History ==
  /\ doneIds' = IF CommandStep /\ res'.action = "committed" /\ res'.committedFiles > 0
                THEN doneIds \cup res'.batchFiles ELSE doneIds
  /\ ackHi' = [p \in Paths |->
                 IF ~OnlyAppended(p) THEN 0
                 ELSE IF /\ CommandStep /\ res'.action = "committed"
                         /\ p \in DOMAIN files
                         /\ commits(files[p], CHOOSE b \in res'.batchFiles : TRUE)
                      THEN files[p].pending
                      ELSE ackHi[p]]

NoHistory == UNCHANGED <<ackHi, doneIds>>

\* One session file that is written, truncated, rotated and deleted.
Next ==
  \/ CmdInit /\ NoHistory
  \/ \E mb \in MaxBytesArgs, mm \in MaxMessagesArgs : CmdRun(mb, mm) /\ NoHistory
  \/ \E b \in BatchIds, ok \in BOOLEAN : CmdCommit(b, ok) /\ NoHistory
  \/ \E b \in Bytes : AppendByte(PathSeq[1], b, MaxLen) /\ NoHistory
  \/ Truncate(PathSeq[1]) /\ NoHistory
  \/ \E ino \in 1..MaxIno : Rotate(PathSeq[1], ino) /\ NoHistory
  \/ \E ino \in 1..MaxIno : Create(PathSeq[1], ino) /\ NoHistory
  \/ Delete(PathSeq[1]) /\ NoHistory

Spec == Init /\ [][Next]_vars

\* Two session files that are created and appended to, with the history kept.
NextPair ==
  \/ CmdInit /\ History
  \/ \E mb \in MaxBytesArgs, mm \in MaxMessagesArgs : CmdRun(mb, mm) /\ History
  \/ \E b \in BatchIds, ok \in BOOLEAN : CmdCommit(b, ok) /\ History
  \/ \E p \in Paths, b \in Bytes :
       AppendByte(p, b, MaxTotal - Bytes_in(fs, DOMAIN fs \ {p})) /\ History
  \/ \E p \in Paths : Create(p, 1) /\ History

SpecPair == Init /\ [][NextPair]_vars

\* Two session files that are created, appended to and deleted.
NextDir ==
  \/ CmdInit /\ NoHistory
  \/ \E mb \in MaxBytesArgs, mm \in MaxMessagesArgs : CmdRun(mb, mm) /\ NoHistory
  \/ \E b \in BatchIds, ok \in BOOLEAN : CmdCommit(b, ok) /\ NoHistory
  \/ \E p \in Paths, b \in Bytes :
       AppendByte(p, b, MaxDirTotal - Bytes_in(fs, DOMAIN fs \ {p})) /\ NoHistory
  \/ \E p \in Paths : Create(p, 1) /\ NoHistory
  \/ \E p \in Paths : Delete(p) /\ NoHistory

SpecDir == Init /\ [][NextDir]_vars

\* One session file that is created and appended to, also in the middle of
\* an extract pass.
NextRace ==
  \/ CmdInit /\ NoHistory
  \/ \E mb \in MaxBytesArgs, mm \in MaxMessagesArgs : CmdRun(mb, mm) /\ NoHistory
  \/ \E mb \in MaxBytesArgs, mm \in MaxMessagesArgs, b \in Bytes :
       CmdRunRacing(mb, mm, PathSeq[1], b, MaxLen) /\ NoHistory
  \/ \E b \in BatchIds, ok \in BOOLEAN : CmdCommit(b, ok) /\ NoHistory
  \/ \E b \in Bytes : AppendByte(PathSeq[1], b, MaxLen) /\ NoHistory
  \/ Create(PathSeq[1], 1) /\ NoHistory

SpecRace == Init /\ [][NextRace]_vars

\* Two session files that are created and appended to, one of which may be
\* impossible to stat or to open during a pass.
NextErr ==
  \/ CmdInit /\ NoHistory
  \/ \E mb \in MaxBytesArgs, mm \in MaxMessagesArgs : CmdRun(mb, mm) /\ NoHistory
  \/ \E mb \in MaxBytesArgs, mm \in MaxMessagesArgs, bad \in Paths,
        kind \in {"stat", "read"} :
       CmdRunFailing(mb, mm, bad, kind) /\ NoHistory
  \/ \E b \in BatchIds, ok \in BOOLEAN : CmdCommit(b, ok) /\ NoHistory
  \/ \E p \in Paths, b \in Bytes :
       AppendByte(p, b, MaxDirTotal - Bytes_in(fs, DOMAIN fs \ {p})) /\ NoHistory
  \/ \E p \in Paths : Create(p, 1) /\ NoHistory

SpecErr == Init /\ [][NextErr]_vars

\* One session file that is created and appended to, with commands whose
\* process may die between any two of their writes to disk.
NextCrash ==
  \/ CmdInit /\ NoHistory
  \/ \E mb \in MaxBytesArgs, mm \in MaxMessagesArgs : CmdRun(mb, mm) /\ NoHistory
  \/ \E mb \in MaxBytesArgs, mm \in MaxMessagesArgs, at \in CrashPoints :
       CmdRunCrashing(mb, mm, at) /\ NoHistory
  \/ \E b \in BatchIds, ok \in BOOLEAN : CmdCommit(b, ok) /\ NoHistory
  \/ \E b \in BatchIds, at \in CrashPoints : CmdCommitCrashing(b, at) /\ NoHistory
  \/ \E b \in Bytes : AppendByte(PathSeq[1], b, MaxLen) /\ NoHistory
  \/ Create(PathSeq[1], 1) /\ NoHistory

SpecCrash == Init /\ [][NextCrash]_vars

\* The tail reader alone: one file with any content of at most MaxTailLen
\* bytes, read from any offset (also past its end) with any read ceiling.
SeqsUpTo(S, n) == UNION {[1..k -> S] : k \in 0..n}

InitTail ==
  /\ \E d \in SeqsUpTo(TailBytes, MaxTailLen) :
       fs = (PathSeq[1] :> [ino |-> 1, data |-> d])
  /\ files = <<>>
  /\ batches = {}
  /\ res = Result("none", {}, 0, 0, 0)
  /\ ackHi = [p \in Paths |-> 0]
  /\ doneIds = {}

\* lines, end_offset = _read_jsonl_lines(f, start_offset, max_bytes)
ReadTail(start_offset, max_bytes) ==
  \E out \in {read_jsonl_lines(fs[PathSeq[1]].data, start_offset, max_bytes)} :
     /\ res' = [action |-> "tail", start_offset |-> start_offset,
                max_bytes |-> max_bytes, lines |-> out.lines,
                end_offset |-> out.end_offset]
     /\ UNCHANGED <<fs, files, batches>>

NextTail ==
  \E start_offset \in 0..(MaxTailLen + 1), max_bytes \in 0..(MaxTailLen + 1) :
    ReadTail(start_offset, max_bytes) /\ NoHistory

SpecTail == InitTail /\ [][NextTail]_vars

(***************************************************************************)
(* Vocabulary of the properties                                            *)
(***************************************************************************)
RunStep == CommandStep /\ res'.action \in {"pending", "noop", "created"}
CommitStep(b) == CommandStep /\ res'.action = "committed" /\ res'.batchFiles = {b}

Tracked == DOMAIN files \cap DOMAIN fs
Size(p) == Len(fs[p].data)
HasPending(store, p) == store[p].pendingBatch # None

\* C1: after an extract call that created a batch, with no other command in
\* between and whatever the writers did to the files, the next extract call
\* reports "pending" with that same batch id, reads no byte, creates no batch
\* file and leaves the cursor store as it was.
C1_Exclusivity ==
  [][(RunStep /\ res.action = "created") =>
       /\ res'.action = "pending"
       /\ res'.batchFiles = res.batchFiles
       /\ files' = files
       /\ batches' = batches
       /\ \A now \in BatchIds, mb \in MaxBytesArgs, mm \in MaxMessagesArgs :
            run_extract(files, fs, now, mb, mm).nread = 0]_vars

\* an extract call answered "pending" although the file has grown past the
\* pending offset of the outstanding batch
C1_Witness ==
  /\ res.action = "pending"
  /\ \E p \in Tracked :
       /\ files[p].pendingBatch \in res.batchFiles
       /\ files[p].inode = fs[p].ino
       /\ Size(p) > files[p].pending

\* C2 as stated: when an extract pass creates a batch, every file touched by it
\* keeps the committed offset it had in the store before the pass, gets
\* pending = the end offset of the tail read from that offset, and
\* pendingBatch = the new batch.
C2_CommittedUnchanged ==
  [][(CommandStep /\ res'.action = "created") =>
       \A mb \in MaxBytesArgs, mm \in MaxMessagesArgs :
         CmdRun(mb, mm) =>
         \A p \in DOMAIN files' :
           HasPending(files', p) =>
             /\ p \in Tracked
             /\ files'[p].committed = files[p].committed
             /\ files'[p].pending =
                  read_jsonl_lines(fs[p].data, files[p].committed, mb).end_offset
             /\ res'.batchFiles = {files'[p].pendingBatch}
             /\ files'[p].pendingBatch \in batches']_vars

\* C2 as amended: the same, except that a file truncated in place (current
\* size below the stored committed offset) is read from 0 and gets
\* committed = 0.
C2_TwoPhaseStaging ==
  [][(CommandStep /\ res'.action = "created") =>
       \A mb \in MaxBytesArgs, mm \in MaxMessagesArgs :
         CmdRun(mb, mm) =>
         \A p \in DOMAIN files' :
           HasPending(files', p) =>
             /\ p \in Tracked
             /\ LET from == IF Size(p) < files[p].committed
                            THEN 0 ELSE files[p].committed
                IN /\ files'[p].committed = from
                   /\ files'[p].pending =
                        read_jsonl_lines(fs[p].data, from, mb).end_offset
                   /\ files'[p].pending > from
             /\ res'.batchFiles = {files'[p].pendingBatch}
             /\ files'[p].pendingBatch \in batches']_vars

\* a batch was just created for a file whose committed offset is not 0 and
\* stays behind its pending offset
C2_Witness ==
  /\ res.action = "created"
  /\ \E p \in Tracked :
       /\ files[p].pendingBatch \in res.batchFiles
       /\ files[p].committed > 0
       /\ files[p].pending > files[p].committed

\* C3: commit(b) sets committed := pending and clears pending and pendingBatch
\* for exactly the cursors whose pendingBatch is b, leaves every other cursor as
\* it was and reports how many it advanced; commit(b) called again right
\* after a commit(b) reports 0 and changes no cursor.
C3_Commit ==
  [][\A b \in BatchIds :
       CommitStep(b) =>
         /\ DOMAIN files' = DOMAIN files
         /\ \A p \in DOMAIN files :
              IF files[p].pendingBatch = b
              THEN /\ files'[p].committed = files[p].pending
                   /\ files'[p].pending = None
                   /\ files'[p].pendingBatch = None
                   /\ files'[p].inode = files[p].inode
              ELSE files'[p] = files[p]
         /\ res'.committedFiles =
              Cardinality({p \in DOMAIN files : files[p].pendingBatch = b})
         /\ (res.action = "committed" /\ res.batchFiles = {b}) =>
              (res'.committedFiles = 0 /\ files' = files)]_vars

\* a commit of a batch id that an earlier commit has already advanced
\* reported 0 files
C3_Witness ==
  /\ res.action = "committed"
  /\ res.committedFiles = 0
  /\ res.batchFiles \subseteq doneIds
  /\ \E p \in DOMAIN files : files[p].committed > 0

\* C4: for session files that keep their identity and are only appended to,
\* no command lowers a stored committed offset, and every byte range
\* [committed, pending) a commit acknowledges is non-empty and starts at or
\* after the end of the range the previous commit acknowledged for that file.
C4_NoDoubleDelivery ==
  [][CommandStep =>
       \A p \in DOMAIN files :
         /\ p \in DOMAIN files'
         /\ files'[p].committed >= files[p].committed
         /\ (res'.action = "committed" /\ files[p].pendingBatch \in res'.batchFiles) =>
              /\ files[p].committed >= ackHi[p]
              /\ files[p].pending > files[p].committed
              /\ files'[p].committed = files[p].pending]_vars

\* a second batch is staged right behind a range already acknowledged
C4_Witness ==
  \E p \in Tracked :
    /\ ackHi[p] > 0
    /\ HasPending(files, p)
    /\ files[p].committed >= ackHi[p]
    /\ files[p].pending > files[p].committed

\* the pass runs with no batch outstanding (it gets past the pending check)
Scanning == RunStep /\ \A p \in DOMAIN files : ~HasPending(files, p)

\* C5: when the file at a tracked path has been replaced by a file with another
\* inode, the next extract pass starts that path at offset 0, so that a
\* complete message already in the new file is staged in a batch.
C5_RotationStartsAtZero ==
  [][Scanning =>
       \A p \in Tracked :
         files[p].inode # fs[p].ino =>
           /\ start_offset_of(files, p, fs[p].ino, Size(p)) = 0
           /\ (\A mb \in MaxBytesArgs :
                 decode_lines(p, read_jsonl_lines(fs[p].data, 0, mb).lines) # <<>>)
                => HasPending(files', p)]_vars

\* C6: when an agent's staged messages outnumber the cap N, the batch holds
\* exactly the last N of them, and every message the cap discards still lies
\* at or after its file's committed offset once the batch is committed, so
\* that a later pass reads it.
C6_CapDefers ==
  [][(CommandStep /\ res'.action = "created") =>
       \A now \in res'.batchFiles, mb \in MaxBytesArgs, mm \in MaxMessagesArgs :
         CmdRun(mb, mm) =>
           LET out == run_extract(files, fs, now, mb, mm)
               kept == out.written[batch_id_at(now)].agents
               after == commit_batch(files', batch_id_at(now)).files
           IN \A a \in DOMAIN out.staged :
                LET staged == out.staged[a]
                    n == Len(staged)
                IN n > mm =>
                     /\ kept[a] = [i \in 1..mm |-> staged[n - mm + i]]
                     /\ \A i \in 1..(n - mm) :
                          after[staged[i].ts[1]].committed <= staged[i].ts[2]]_vars

\* offset at which the unterminated last line of data starts
PartialStart(data) == rfind_nl(data) + 1

\* the unread bytes of p (those after the stored committed offset, or the
\* whole file when it was replaced or cut below that offset) are not empty
\* and end in a line that has no newline yet
TailEndsPartial(p) ==
  /\ Size(p) > 0
  /\ fs[p].data[Size(p)] # NL
  /\ files[p].inode = fs[p].ino => Size(p) # files[p].committed

\* C7: when the unread tail of a tracked file ends in a line without its
\* newline, an extract pass puts no part of that line in a batch, and no
\* committed or pending offset it writes for the file lies beyond the start of
\* that line.
C7_PartialLineSafety ==
  [][RunStep =>
       \A p \in Tracked :
         TailEndsPartial(p) =>
           /\ files'[p] # files[p] =>
                /\ files'[p].committed <= PartialStart(fs[p].data)
                /\ files'[p].pending <= PartialStart(fs[p].data)
           /\ \A now \in BatchIds, mb \in MaxBytesArgs, mm \in MaxMessagesArgs :
                LET out == run_extract(files, fs, now, mb, mm)
                IN \A a \in DOMAIN out.staged :
                     \A i \in 1..Len(out.staged[a]) :
                       LET m == out.staged[a][i]
                       IN m.ts[1] = p =>
                            m.ts[2] + Len(m.text) < PartialStart(fs[p].data)]_vars

\* the bytes of p from its stored committed offset on are complete lines, none
\* of which decodes to a message
NoiseOnlyTail(p) ==
  /\ files[p].inode = fs[p].ino
  /\ Size(p) > files[p].committed
  /\ fs[p].data[Size(p)] = NL
  /\ LET tail == SubSeq(fs[p].data, files[p].committed + 1, Size(p))
         lines == splitlines(tail, files[p].committed, 1, <<>>)
     IN \A i \in 1..Len(lines) :
          lines[i].text = <<>> \/ \E j \in 1..Len(lines[i].text) : lines[i].text[j] = "z"

\* C8: an extract pass over a tracked file whose unread bytes are only complete
\* lines the decoder filters out (blank lines included) stages nothing for the
\* file, and a pass whose read ceiling covers those bytes leaves the stored
\* committed offset at the file's size. (A pass that leaves the store as it
\* was is repeated by every later call, so this is what convergence in
\* finitely many calls needs.)
C8_NoiseSkipConverges ==
  [][Scanning =>
       \A p \in Tracked :
         NoiseOnlyTail(p) =>
           /\ ~HasPending(files', p)
           /\ \A mb \in MaxBytesArgs, mm \in MaxMessagesArgs :
                (mb >= Size(p) - files[p].committed /\ CmdRun(mb, mm))
                  => files'[p].committed = Size(p)]_vars

\* C9: all cursors of the store that have a pendingBatch have the same one.
C9_OneOutstandingBatch ==
  \A p, q \in DOMAIN files :
    (HasPending(files, p) /\ HasPending(files, q))
      => files[p].pendingBatch = files[q].pendingBatch

\* an extract call answered "pending" for the batch of one cursor while
\* another tracked file holds a complete message that no batch has staged
C9_Witness ==
  /\ res.action = "pending"
  /\ \E p, q \in DOMAIN files :
       /\ HasPending(files, p)
       /\ ~HasPending(files, q)
       /\ q \in DOMAIN fs
       /\ files[q].inode = fs[q].ino
       /\ decode_lines(q, read_jsonl_lines(fs[q].data, files[q].committed,
                                           MaxTotal).lines) # <<>>

\* C10: once a commit of batch id b has advanced files, every later commit of b
\* advances no file and leaves every cursor as it was, whatever extract passes
\* ran in between and whatever the clock read when they named their batches.
C10_CommitOnce ==
  [][\A b \in doneIds :
       CommitStep(b) => (res'.committedFiles = 0 /\ files' = files)]_vars


\* C11: a pass during which one discovered file cannot be stat-ed or opened
\* still ends with its normal result (pending, noop or created) and stores,
\* for every other discovered file, the cursor that the pass over the other
\* files alone stores.
C11_ErrorIsolation ==
  [][\A mb \in MaxBytesArgs, mm \in MaxMessagesArgs, bad \in Paths,
        kind \in {"stat", "read"} :
       ((\A p \in DOMAIN files : ~HasPending(files, p))
          /\ CmdRunFailing(mb, mm, bad, kind)) =>
         /\ res'.action \in {"noop", "created"}
         /\ \A q \in DOMAIN fs \ {bad} :
              /\ q \in DOMAIN files'
              /\ LET alone == collect(files, Without(fs, bad), mb).files
                 IN q \in DOMAIN alone =>
                      /\ files'[q].committed = alone[q].committed
                      /\ files'[q].inode = alone[q].inode]_vars

\* C12: after init every discovered file has a cursor with its current inode,
\* committed = its current size and no pending or pendingBatch; the cursors of
\* paths that are not discovered are as they were; trackedFiles is the number
\* of cursors in the store.
C12_InitSeedsAtEnd ==
  [][(CommandStep /\ res'.action = "init") =>
       /\ DOMAIN files' = DOMAIN files \cup DOMAIN fs
       /\ \A p \in DOMAIN fs :
            /\ files'[p].inode = fs[p].ino
            /\ files'[p].committed = Size(p)
            /\ files'[p].pending = None
            /\ files'[p].pendingBatch = None
       /\ \A p \in DOMAIN files \ DOMAIN fs : files'[p] = files[p]
       /\ res'.trackedFiles = Cardinality(DOMAIN files')]_vars

\* init has just run: one file with content is seeded at its end, and the
\* cursor of a deleted file still holds its pending batch
C12_Witness ==
  /\ res.action = "init"
  /\ res.trackedFiles = 2
  /\ \E p \in DOMAIN files \ DOMAIN fs : HasPending(files, p)
  /\ \E q \in Tracked : Size(q) > 0 /\ files[q].committed = Size(q)

\* the file at p has kept its inode and is now shorter than the stored
\* committed offset
Truncated(p) ==
  /\ files[p].inode = fs[p].ino
  /\ Size(p) < files[p].committed

\* C13: a pass over a tracked file that kept its inode and is shorter than its
\* stored committed offset reads it from offset 0 (what it stores for the file
\* is what the tail read from 0 gives), and no committed or pending offset it
\* writes for the file exceeds the file's current length.
C13_TruncationReset ==
  [][Scanning =>
       \A p \in Tracked :
         Truncated(p) =>
           /\ start_offset_of(files, p, fs[p].ino, Size(p)) = 0
           /\ files'[p] # files[p] =>
                /\ files'[p].committed <= Size(p)
                /\ files'[p].pending <= Size(p)
           /\ \A mb \in MaxBytesArgs, mm \in MaxMessagesArgs :
                CmdRun(mb, mm) =>
                  LET rd == read_jsonl_lines(fs[p].data, 0, mb)
                  IN rd.lines # <<>> =>
                       IF decode_lines(p, rd.lines) # <<>>
                       THEN /\ files'[p].committed = 0
                            /\ files'[p].pending = rd.end_offset
                       ELSE /\ files'[p].committed = rd.end_offset
                            /\ files'[p].pending = None]_vars

\* a tracked file was cut below its committed offset and holds a complete
\* message again while no batch is outstanding, so that the next pass reads
\* it from 0 and stages that message
C13_Witness ==
  /\ \A q \in DOMAIN files : ~HasPending(files, q)
  /\ \E p \in Tracked :
       /\ Truncated(p)
       /\ decode_lines(p, read_jsonl_lines(fs[p].data, 0, MaxLen).lines) # <<>>

\* C14: a pass that gets past the pending check reads no byte of a discovered
\* file that has no cursor, stages no message from it, and stores a cursor
\* for it with committed = the file's current size and no pending state.
C14_NewFileSkipsBacklog ==
  [][Scanning =>
       \A p \in DOMAIN fs \ DOMAIN files :
         /\ p \in DOMAIN files'
         /\ files'[p] = CursorEntry(AgentOf(p), fs[p].ino, Size(p), None, None, Size(p))
         /\ \A mb \in MaxBytesArgs :
              LET st == collect(files, fs, mb)
              IN /\ st.nread = collect(files, Without(fs, p), mb).nread
                 /\ \A i \in 1..Len(st.touched_files) : st.touched_files[i].path # p
                 /\ \A a \in DOMAIN st.per_agent_msgs :
                      \A i \in 1..Len(st.per_agent_msgs[a]) :
                        st.per_agent_msgs[a][i].ts[1] # p]_vars

\* a pass answered "noop" and the store holds a cursor at the end of a file
\* whose content is a complete message
C14_Witness ==
  /\ res.action = "noop"
  /\ \E p \in Tracked :
       /\ files[p].committed = Size(p)
       /\ files[p].lastSize = Size(p)
       /\ ~HasPending(files, p)
       /\ decode_lines(p, read_jsonl_lines(fs[p].data, 0, MaxLen).lines) # <<>>

\* the lines the pass reads from p, given the stored cursor and a read ceiling
LinesRead(p, mb) ==
  LET size == Size(p)
      from == IF p \in DOMAIN files /\ files[p].inode = fs[p].ino
              THEN IF size < files[p].committed THEN 0 ELSE files[p].committed
              ELSE size
  IN IF size <= from THEN [lines |-> <<>>, end_offset |-> from]
     ELSE read_jsonl_lines(fs[p].data, from, mb)

\* C15: a pass in which no file yields a message creates no batch file, sets no
\* pending or pendingBatch, stores committed = the tail's end offset for
\* every file whose lines were all filtered out, and reports "noop".
C15_NoopShortCircuit ==
  [][Scanning =>
       \A mb \in MaxBytesArgs, mm \in MaxMessagesArgs :
         (CmdRun(mb, mm) /\
            \A p \in DOMAIN fs : decode_lines(p, LinesRead(p, mb).lines) = <<>>) =>
           /\ res'.action = "noop"
           /\ batches' = batches
           /\ \A p \in DOMAIN files' : ~HasPending(files', p)
           /\ \A p \in DOMAIN fs :
                LinesRead(p, mb).lines # <<>> =>
                  files'[p].committed = LinesRead(p, mb).end_offset]_vars

\* a pass answered "noop" and the stored committed offset stands right after a
\* complete line that the decoder filters out, past the offset init seeded
C15_Witness ==
  /\ res.action = "noop"
  /\ batches = {}
  /\ \E p \in Tracked :
       /\ files[p].inode = fs[p].ino
       /\ ~HasPending(files, p)
       /\ files[p].committed > 1
       /\ fs[p].data[files[p].committed] = NL
       /\ fs[p].data[files[p].committed - 1] = "z"

\* C16: after every step, crashes between the writes of a command included,
\* every pendingBatch in the stored cursor names a batch file that exists, and
\* the store a crashed command leaves is either the store as it was or the
\* store the complete command leaves.
C16_CrashSafeOrdering ==
  [][/\ \A p \in DOMAIN files' :
          HasPending(files', p) => files'[p].pendingBatch \in batches'
     /\ (CommandStep /\ res'.action = "crashed") =>
          \/ files' = files
          \/ \E b \in BatchIds : files' = commit_batch(files, b).files
          \/ \E now \in BatchIds, mb \in MaxBytesArgs, mm \in MaxMessagesArgs :
               files' = run_extract(files, fs, now, mb, mm).files]_vars

\* a pass died after writing its batch file and before saving the cursor:
\* the batch file exists, no cursor names it, and the message it holds is
\* still unread
C16_Witness ==
  /\ res.action = "crashed"
  /\ batches # {}
  /\ \A p \in DOMAIN files : ~HasPending(files, p)
  /\ \E p \in Tracked :
       /\ files[p].inode = fs[p].ino
       /\ decode_lines(p, read_jsonl_lines(fs[p].data, files[p].committed,
                                           MaxLen).lines) # <<>>

\* the offset just past the first unread line of p, when that line is
\* non-blank and has its newline; 0 when there is no such line
FirstRecordEnd(p) ==
  LET from == files[p].committed
      S == {i \in (from + 1)..Size(p) : fs[p].data[i] = NL}
  IN IF S = {} \/ fs[p].data[from + 1] = NL THEN 0
     ELSE CHOOSE i \in S : \A j \in S : i <= j

\* C17: when the first unread record of a tracked file has its terminating
\* newline, a pass with no batch outstanding moves the file's committed or
\* pending offset past that record, whatever the record's length and the
\* read ceiling.
C17_StallIsRetried ==
  [][Scanning =>
       \A p \in Tracked :
         (files[p].inode = fs[p].ino /\ files[p].committed < Size(p)
            /\ FirstRecordEnd(p) > 0) =>
           \/ files'[p].committed >= FirstRecordEnd(p)
           \/ files'[p].pending >= FirstRecordEnd(p)]_vars


\* the non-blank lines of bytes [a, b) of content, in file order, each without
\* its surrounding whitespace, read off the positions of the newlines
RECURSIVE LinesBetween(_, _, _)
LinesBetween(content, a, b) ==
  IF a >= b THEN <<>>
  ELSE LET nls == {i \in (a + 1)..b : content[i] = NL}
           e == IF nls = {} THEN b + 1 ELSE CHOOSE i \in nls : \A j \in nls : i <= j
           raw == SubSeq(content, a + 1, e - 1)
           inner == {i \in 1..Len(raw) : raw[i] # SP}
           lo == CHOOSE i \in inner : \A j \in inner : i <= j
           hi == CHOOSE i \in inner : \A j \in inner : j <= i
       IN (IF inner = {} THEN <<>> ELSE <<SubSeq(raw, lo, hi)>>)
          \o LinesBetween(content, Min(e, b), b)

C19_CursorOffsets ==
  \A p \in DOMAIN files :
    files[p].pending # None =>
      /\ files[p].committed <= files[p].pending
      /\ files[p].pending <= files[p].lastSize

====
